---- MODULE Spec2Model ----
(***************************************************************************)
(* audio-streamer: the discovery worker (src/src/audio.rs), the streaming  *)
(* supervisor and the per-frame GUI handler (src/src/gui.rs), the          *)
(* configuration record and its ffmpeg argument vector (src/src/config.rs) *)
(* and the loading of the configuration file at startup (src/src/main.rs). *)
(*                                                                         *)
(* Text is a sequence of tokens.  Three tokens are structural: SourceHdr   *)
(* is the substring "Source #" that str::split cuts on, NL is a line       *)
(* break, and the three field prefixes are the strings strip_prefix looks  *)
(* for at the start of a trimmed line.  Whitespace around tokens is what   *)
(* trim() removes and is not represented.                                  *)
(***************************************************************************)
EXTENDS Integers, Sequences, FiniteSets, TLC

\* ------------------------------------------------------------------ bounds
MaxTasks == 2          \* discovery workers in flight at once
MaxChildren == 2       \* child processes in the process table at once
MaxBlocks == 3         \* blocks in one `pactl list sources` output
PipeCapacity == 1      \* writes an unread stdout/stderr pipe accepts

\* ------------------------------------------------------------- text tokens
SourceHdr == "Source #"
NL == "\n"
NamePrefix == "Name:"
DescriptionPrefix == "Description:"
StatePrefix == "State:"

\* Pieces of s between occurrences of the token d (str::split: n occurrences
\* give n+1 pieces, empty pieces included).
SplitOn(s, d) ==
    LET cuts == {0} \cup {i \in 1..Len(s) : s[i] = d} \cup {Len(s) + 1}
        nth(k) == CHOOSE c \in cuts : Cardinality({x \in cuts : x < c}) = k
    IN [k \in 1..(Cardinality(cuts) - 1) |-> SubSeq(s, nth(k - 1) + 1, nth(k) - 1)]

\* str::lines: the pieces between line breaks, a final empty piece dropped.
Lines(block) ==
    LET ps == SplitOn(block, NL) IN
    IF ps[Len(ps)] = <<>> THEN SubSeq(ps, 1, Len(ps) - 1) ELSE ps

\* block.trim().is_empty(): nothing but white space and line breaks.
TrimIsEmpty(block) == \A i \in 1..Len(block) : block[i] = NL

\* val.trim().to_string(): the rest of the line as one string.
RECURSIVE TrimToString(_)
TrimToString(toks) ==
    IF toks = <<>> THEN ""
    ELSE IF Len(toks) = 1 THEN toks[1]
    ELSE toks[1] \o " " \o TrimToString(Tail(toks))

None == [some |-> FALSE, val |-> ""]
Some(v) == [some |-> TRUE, val |-> v]

\* The loop over block.lines() of parse_pactl_sources_output: each line that
\* starts with a field prefix overwrites that field.
RECURSIVE ScanLines(_, _)
ScanLines(lines, acc) ==
    IF lines = <<>> THEN acc
    ELSE LET l == Head(lines) IN
         LET nxt ==
             IF l # <<>> /\ Head(l) = NamePrefix
               THEN [acc EXCEPT !.name = Some(TrimToString(Tail(l)))]
             ELSE IF l # <<>> /\ Head(l) = DescriptionPrefix
               THEN [acc EXCEPT !.description = Some(TrimToString(Tail(l)))]
             ELSE IF l # <<>> /\ Head(l) = StatePrefix
               THEN [acc EXCEPT !.state = Some(TrimToString(Tail(l)))]
             ELSE acc
         IN ScanLines(Tail(lines), nxt)

RECURSIVE ParseBlocks(_)
ParseBlocks(blocks) ==
    IF blocks = <<>> THEN <<>>
    ELSE LET block == Head(blocks) IN
         IF TrimIsEmpty(block) THEN ParseBlocks(Tail(blocks))
         ELSE LET f == ScanLines(Lines(block),
                                 [name |-> None, description |-> None, state |-> None])
              IN IF f.name.some /\ f.description.some /\ f.state.some
                   THEN << <<f.name.val, f.description.val, f.state.val>> >>
                        \o ParseBlocks(Tail(blocks))
                   ELSE ParseBlocks(Tail(blocks))

parse_pactl_sources_output(output) == ParseBlocks(SplitOn(output, SourceHdr))

\* ---------------------------------------------------------- string tables
\* name.contains(".monitor") over the identifiers of the model's alphabet.
MonitorNames == {"alsa_out.monitor", "hdmi.monitor", ".monitor"}
ContainsMonitor(name) == name \in MonitorNames

\* Every string the model can hold as a description, in ascending str::cmp
\* (byte-wise) order.
LexAscending == <<"", "HDMI", "Mic", "Monitor of", "Speakers", "USB Mic">>
LexIndex(s) == CHOOSE i \in 1..Len(LexAscending) : LexAscending[i] = s
\* a.description.cmp(&b.description) == Ordering::Less
StrLess(a, b) == LexIndex(a) < LexIndex(b)

\* ------------------------------------------------------- audio.rs, ranking
\* The score closure of the sort comparator.
score(s) ==
    (IF s.is_running THEN 4 ELSE 0) + (IF s.is_default THEN 2 ELSE 0)
        + (IF s.is_monitor THEN 1 ELSE 0)

\* The comparator with the two scores swapped: ascending by score.
SortsBefore_ascending(a, b) ==
    \/ score(a) < score(b)
    \/ score(a) = score(b) /\ StrLess(a.description, b.description)

\* The comparator without then_with: equal scores compare Equal.
SortsBefore_score_only(a, b) == score(b) < score(a)

\* score(b).cmp(&score(a)).then_with(|| a.description.cmp(&b.description))
\* is Ordering::Less: a sorts strictly before b.
SortsBefore(a, b) ==
    \/ score(b) < score(a)
    \/ score(b) = score(a) /\ StrLess(a.description, b.description)

\* slice::sort_by is a stable sort: x goes in front of the first element it
\* sorts strictly before, behind everything else already placed.
RECURSIVE InsertSorted(_, _)
InsertSorted(x, sorted) ==
    IF sorted = <<>> THEN <<x>>
    ELSE IF SortsBefore(x, Head(sorted)) THEN <<x>> \o sorted
    ELSE <<Head(sorted)>> \o InsertSorted(x, Tail(sorted))

RECURSIVE SortFrom(_, _)
SortFrom(rest, sorted) ==
    IF rest = <<>> THEN sorted
    ELSE SortFrom(Tail(rest), InsertSorted(Head(rest), sorted))

sort_by(list) == SortFrom(list, <<>>)

\* The outcome of running an external command: launched is false when the
\* process could not be invoked, success is the exit status, stdout the text.
\* For `pactl get-default-sink` stdout is the trimmed line, one string.
get_default_sink_monitor_name(output) ==
    IF ~output.launched THEN [ok |-> FALSE, val |-> ""]
    ELSE IF ~output.success THEN [ok |-> FALSE, val |-> ""]
    ELSE [ok |-> TRUE, val |-> output.stdout \o ".monitor"]

\* Result::unwrap_or_default on a Result<String>.
unwrap_or_default(r) == IF r.ok THEN r.val ELSE ""

\* The map closure of get_audio_sources.
ToAudioSource(t, default_sink_monitor) ==
    [name |-> t[1], description |-> t[2],
     is_monitor |-> ContainsMonitor(t[1]),
     is_running |-> (t[3] = "RUNNING"),
     is_default |-> (t[1] = default_sink_monitor)]

get_audio_sources(sources_list_output, default_output) ==
    IF ~sources_list_output.launched THEN [ok |-> FALSE, val |-> <<>>]
    ELSE IF ~sources_list_output.success THEN [ok |-> FALSE, val |-> <<>>]
    ELSE LET parsed_sources == parse_pactl_sources_output(sources_list_output.stdout)
             default_sink_monitor ==
                 unwrap_or_default(get_default_sink_monitor_name(default_output))
             mapped == [i \in 1..Len(parsed_sources) |->
                           ToAudioSource(parsed_sources[i], default_sink_monitor)]
         IN [ok |-> TRUE, val |-> sort_by(mapped)]

\* Returns 0: the list is sorted, best first.
get_best_source_index(list) == 0

\* ------------------------------------------------- the host audio subsystem
\* One block of `pactl list sources`, fields in pactl's order.
Block(idx, state, name, desc) ==
    <<SourceHdr, idx, NL, StatePrefix>> \o state \o <<NL, NamePrefix>> \o name
        \o <<NL, DescriptionPrefix>> \o desc \o <<NL>>

MicIdle == Block("0", <<"IDLE">>, <<"alsa_in">>, <<"Mic">>)
SpeakersRunning == Block("1", <<"RUNNING">>, <<"alsa_out.monitor">>, <<"Speakers">>)

Exited(success, stdout) == [launched |-> TRUE, success |-> success, stdout |-> stdout]
NotLaunched(stdout) == [launched |-> FALSE, success |-> FALSE, stdout |-> stdout]

\* What `pactl list sources` prints on the hosts of Spec and SpecRefresh.
ListTexts == { <<>>, MicIdle, MicIdle \o SpeakersRunning }

ListOutcomes ==
    {Exited(TRUE, t) : t \in ListTexts} \cup {Exited(FALSE, <<>>), NotLaunched(<<>>)}

\* What `pactl get-default-sink` does on the hosts of Spec and SpecRefresh.
DefaultOutcomes == {Exited(TRUE, "alsa_out"), Exited(FALSE, "")}

\* The hosts of SpecDiscovery: up to MaxBlocks devices, each listed once, in
\* any order and in any of the three states pactl reports.
Devices ==
    { [name |-> "alsa_in", description |-> "Mic"],
      [name |-> "usb_in", description |-> "USB Mic"],
      [name |-> "alsa_out.monitor", description |-> "Speakers"],
      [name |-> "hdmi.monitor", description |-> "HDMI"] }
DeviceStates == {"RUNNING", "IDLE", "SUSPENDED"}

Listings ==
    UNION { { l \in [1..n -> Devices \X DeviceStates] :
                \A i, j \in 1..n : i # j => l[i][1] # l[j][1] } : n \in 0..MaxBlocks }

RECURSIVE Render(_)
Render(l) ==
    IF l = <<>> THEN <<>>
    ELSE Block("7", <<Head(l)[2]>>, <<Head(l)[1].name>>, <<Head(l)[1].description>>)
             \o Render(Tail(l))

DiscoveryListOutcomes ==
    {Exited(TRUE, Render(l)) : l \in Listings}
        \cup {Exited(FALSE, <<>>), NotLaunched(<<>>)}
DiscoveryDefaultOutcomes ==
    {Exited(TRUE, "alsa_out"), Exited(TRUE, "hdmi"), Exited(FALSE, ""), NotLaunched("")}

\* The hosts of SpecParse: what the audio subsystem can print for one source.
\* A field is the sequence of at most one line; the line is the text after
\* the field's prefix.  Blocks may lack a field, carry an empty identifier,
\* name the same identifier twice, or hold the text "Source #" in a
\* description.
RawBlock(state, name, description) ==
    [state |-> state, name |-> name, description |-> description]
RawBlocks ==
    { RawBlock(<< <<"RUNNING">> >>, << <<"alsa_out.monitor">> >>, << <<"Speakers">> >>),
      RawBlock(<< <<"IDLE">> >>, << <<"alsa_in">> >>, << <<"Mic">> >>),
      RawBlock(<< <<"IDLE">> >>, <<>>, << <<"Mic">> >>),
      RawBlock(<< <<"IDLE">> >>, << <<"alsa_in">> >>, <<>>),
      RawBlock(<<>>, << <<"alsa_in">> >>, << <<"Mic">> >>),
      RawBlock(<< <<"IDLE">> >>, << <<>> >>, << <<"Mic">> >>),
      RawBlock(<< <<"SUSPENDED">> >>, << <<"alsa_in">> >>,
               << <<"Monitor of", SourceHdr, "3">> >>) }

RawListings == UNION { [1..n -> RawBlocks] : n \in 0..MaxBlocks }

\* The text of one block: the header line, then the fields in pactl's order.
RenderField(prefix, field) ==
    IF field = <<>> THEN <<>> ELSE <<prefix>> \o field[1] \o <<NL>>
RenderBlock(b) ==
    <<SourceHdr, "7", NL>> \o RenderField(StatePrefix, b.state)
        \o RenderField(NamePrefix, b.name)
        \o RenderField(DescriptionPrefix, b.description)

RECURSIVE RenderListing(_)
RenderListing(l) ==
    IF l = <<>> THEN <<>> ELSE RenderBlock(Head(l)) \o RenderListing(Tail(l))

ParseDefaultOutcomes == {Exited(TRUE, "alsa_out"), Exited(FALSE, ""), NotLaunched("")}

\* ------------------------------------------------------------------ state
VARIABLES
    config,           \* AudioStreamerApp.config: target_ip, preferred_source
    temp_ip,          \* the text of the "Target IP" edit box
    sources,          \* the list inside Arc<Mutex<Vec<AudioSource>>>
    lock,             \* holder of that mutex: 0 free, else the worker's id
    selected_source,  \* index into sources, from 0
    streaming,
    ffmpeg_process,   \* Option<Child>: 0 is None, a pid is Some(child)
    status_message,
    tasks,            \* the tasks refresh_sources spawned that have not ended
    children,         \* the process table: children of this program
    pc,               \* position of the foreground thread: in main() before
                      \* the window runs, then inside update()
    ret,              \* the Result of the supervisor call made in this frame:
                      \* the exit its poll found, or the method a button called
                      \* (with the arguments of the ffmpeg it launched)
    config_file       \* the file at config_path

vars == <<config, temp_ip, sources, lock, selected_source, streaming,
          ffmpeg_process, status_message, tasks, children, pc, ret, config_file>>

Tids == 1..MaxTasks
Pids == 1..MaxChildren

\* What the operator can type into the "Target IP" box.
Ips == {"", "0.0.0.0", "10.0.0.2"}

NoTask == [pc |-> "none", ok |-> FALSE, val |-> <<>>]
NoChild == [kind |-> "none", state |-> "none", stdio |-> "none", fill |-> 0]
NoCall == [op |-> "none", ok |-> TRUE]
\* process.try_wait() returned Ok(Some(status)) in this frame's exit poll.
ExitFound == [op |-> "try_wait", ok |-> TRUE]

\* --------------------------------------------------------------- config.rs
\* Config::default().
ConfigDefault ==
    [target_ip |-> "", target_port |-> 1234, audio_codec |-> "aac",
     bitrate |-> "192k", sample_rate |-> 48000, channels |-> 2,
     buffer_size |-> 1316, low_latency |-> TRUE, preferred_source |-> None]

\* The argument vector with only the first low-latency pair added.
build_ffmpeg_command_low_delay_only(cfg, source) ==
    <<"-f", "pulse", "-i", source, "-ac", ToString(cfg.channels),
      "-ar", ToString(cfg.sample_rate), "-c:a", cfg.audio_codec,
      "-b:a", cfg.bitrate>>
    \o (IF cfg.low_latency THEN <<"-flags", "+low_delay">> ELSE <<>>)
    \o <<"-f", "mpegts", "-muxdelay", "0", "-muxpreload", "0",
         "udp://" \o cfg.target_ip \o ":" \o ToString(cfg.target_port)
             \o "?pkt_size=" \o ToString(cfg.buffer_size)>>

\* Config::build_ffmpeg_command: input and encode stage, the low-latency
\* flags when self.low_latency, then the output stage.
build_ffmpeg_command(cfg, source) ==
    <<"-f", "pulse", "-i", source, "-ac", ToString(cfg.channels),
      "-ar", ToString(cfg.sample_rate), "-c:a", cfg.audio_codec,
      "-b:a", cfg.bitrate>>
    \o (IF cfg.low_latency
          THEN <<"-flags", "+low_delay", "-fflags", "+nobuffer", "-flush_packets", "1">>
          ELSE <<>>)
    \o <<"-f", "mpegts", "-muxdelay", "0", "-muxpreload", "0",
         "udp://" \o cfg.target_ip \o ":" \o ToString(cfg.target_port)
             \o "?pkt_size=" \o ToString(cfg.buffer_size)>>

is_ip_configured(cfg) == cfg.target_ip # "" /\ cfg.target_ip # "0.0.0.0"

\* The target_ip half of update_config_from_temp (target_port and temp_port
\* take part in no property here and are not modelled).
update_config_from_temp(cfg, tip) ==
    IF tip # "" /\ tip # cfg.target_ip THEN [cfg EXCEPT !.target_ip = tip] ELSE cfg

\* ------------------------------------------------------------ process table
FreePids == {p \in Pids : children[p] = NoChild}
LeastFree == CHOOSE p \in FreePids : \A q \in FreePids : p <= q

\* Dropping a Child closes the parent's ends of its pipes and leaves the
\* process itself alone.  A process that has ended and has no handle left
\* can no longer be seen by the program: it leaves the table.
DropHandle(chs, p) ==
    IF chs[p].state = "exited" THEN [chs EXCEPT ![p] = NoChild]
    ELSE [chs EXCEPT ![p].stdio = "closed", ![p].fill = 0]

\* ------------------------------------------------- gui.rs, the supervisor
\* sources.iter().position(|s| s.name == *preferred), -1 for None.
Position(list, name) ==
    IF \E i \in 1..Len(list) : list[i].name = name
      THEN (CHOOSE i \in 1..Len(list) :
               /\ list[i].name = name
               /\ \A j \in 1..(i - 1) : list[j].name # name) - 1
      ELSE -1

\* The index computed with the preferred identifier ignored.
NewIndex_best_only(list, preferred) == get_best_source_index(list)

\* The index update_selected_source computes for a non-empty list.
NewIndex(list, preferred) ==
    IF preferred.some
      THEN IF Position(list, preferred.val) >= 0
             THEN Position(list, preferred.val)
             ELSE get_best_source_index(list)
      ELSE get_best_source_index(list)

\* update_selected_source: the new (selected_source, status_message).
update_selected_source(list, cfg, sel, status) ==
    IF list = <<>> THEN [selected_source |-> sel, status_message |-> status]
    ELSE LET new_index == NewIndex(list, cfg.preferred_source) IN
         IF new_index # sel /\ new_index < Len(list)
           THEN [selected_source |-> new_index,
                 status_message |-> "Auto-selected: " \o list[new_index + 1].description]
           ELSE [selected_source |-> sel, status_message |-> status]

\* spawn()? with the assignments to self moved in front of it.
SpawnErr_after_flag ==
    [children |-> children, ffmpeg_process |-> ffmpeg_process,
     streaming |-> TRUE, status_message |-> status_message, args |-> <<>>,
     ok |-> FALSE]

\* Command::spawn fails: the `?` returns Err before self is touched.
SpawnErr ==
    [children |-> children, ffmpeg_process |-> ffmpeg_process,
     streaming |-> streaming, status_message |-> status_message, args |-> <<>>,
     ok |-> FALSE]

\* The outcomes of start_streaming with self.config = cfg: the fields it
\* leaves in self, the process table, the arguments of the ffmpeg it has
\* launched (none when it launched nothing), and the Result it returns.
start_streaming(cfg) ==
    IF ~is_ip_configured(cfg)
      THEN {[children |-> children, ffmpeg_process |-> ffmpeg_process,
             streaming |-> streaming,
             status_message |-> "Please set target IP first", args |-> <<>>,
             ok |-> TRUE]}
    ELSE IF selected_source < Len(sources)
      THEN LET source == sources[selected_source + 1] IN
           {SpawnErr}
           \cup
           \* Command::spawn succeeds; the handle held before is dropped
           {[children |->
                 [(IF ffmpeg_process = 0 THEN children
                   ELSE DropHandle(children, ffmpeg_process))
                     EXCEPT ![p] = [kind |-> "main", state |-> "alive",
                                    stdio |-> "piped", fill |-> 0]],
             ffmpeg_process |-> p, streaming |-> TRUE,
             status_message |-> "Streaming " \o source.description \o " to "
                                    \o cfg.target_ip,
             args |-> <<"-v", "info">> \o build_ffmpeg_command(cfg, source.name),
             ok |-> TRUE] : p \in IF FreePids = {} THEN {} ELSE {LeastFree}}
    ELSE {[children |-> children, ffmpeg_process |-> ffmpeg_process,
           streaming |-> streaming, status_message |-> status_message,
           args |-> <<>>, ok |-> TRUE]}

\* stop_streaming clearing the flag first and giving the handle back when
\* kill() fails.
stop_streaming_flag_first ==
    IF ffmpeg_process # 0
      THEN {[children |-> children, ffmpeg_process |-> ffmpeg_process,
             streaming |-> FALSE, status_message |-> status_message, ok |-> FALSE],
            [children |-> [children EXCEPT ![ffmpeg_process] = NoChild],
             ffmpeg_process |-> 0, streaming |-> FALSE,
             status_message |-> "Streaming stopped", ok |-> TRUE]}
      ELSE {[children |-> children, ffmpeg_process |-> 0, streaming |-> FALSE,
             status_message |-> "Streaming stopped", ok |-> TRUE]}

\* The outcomes of stop_streaming.  kill() and wait() each return Ok or Err;
\* the handle was taken out of self before either is called.
stop_streaming ==
    IF ffmpeg_process # 0
      THEN LET p == ffmpeg_process
               dropped == DropHandle(children, p)
               killed == DropHandle([children EXCEPT ![p].state = "exited"], p)
           IN \* process.kill()? returns Err
              {[children |-> dropped, ffmpeg_process |-> 0,
                streaming |-> streaming, status_message |-> status_message,
                ok |-> FALSE]}
              \cup
              \* kill is Ok, process.wait()? returns Err
              {[children |-> killed, ffmpeg_process |-> 0,
                streaming |-> streaming, status_message |-> status_message,
                ok |-> FALSE]}
              \cup
              \* both Ok: the child is reaped
              {[children |-> [children EXCEPT ![p] = NoChild], ffmpeg_process |-> 0,
                streaming |-> FALSE, status_message |-> "Streaming stopped",
                ok |-> TRUE]}
      ELSE {[children |-> children, ffmpeg_process |-> 0, streaming |-> FALSE,
             status_message |-> "Streaming stopped", ok |-> TRUE]}

\* The outcomes of generate_test_tone with self.config = cfg.
generate_test_tone(cfg) ==
    IF ~is_ip_configured(cfg)
      THEN {[children |-> children,
             status_message |-> "Please set target IP first", ok |-> TRUE]}
    ELSE {[children |-> children, status_message |-> status_message, ok |-> FALSE]}
         \cup
         {[children |-> [children EXCEPT ![p] =
                            [kind |-> "tone", state |-> "alive", stdio |-> "null",
                             fill |-> 0]],
           status_message |-> "Sending 5-second test tone (440Hz)...",
           ok |-> TRUE] : p \in IF FreePids = {} THEN {} ELSE {LeastFree}}

\* ------------------------------------------------------- the config file
\* The file at config_path: whether it exists, whether serde_json can parse
\* its contents into a Config, and the Config it then holds.
FileAbsent == [exists |-> FALSE, parses |-> FALSE, config |-> ConfigDefault]
FileUnparsable == [exists |-> TRUE, parses |-> FALSE, config |-> ConfigDefault]
FileOf(cfg) == [exists |-> TRUE, parses |-> TRUE, config |-> cfg]

\* The configurations an operator has saved or written by hand.
StoredConfigs ==
    {[ConfigDefault EXCEPT !.target_ip = ip, !.low_latency = ll, !.channels = ch] :
        ip \in {"", "10.0.0.2"}, ll \in BOOLEAN, ch \in {1, 2}}
Files == {FileAbsent, FileUnparsable} \cup {FileOf(c) : c \in StoredConfigs}

\* The outcomes of load_or_create_config: the Result and the file it leaves.
\* fs::read_to_string and fs::write each return Ok or Err.
load_or_create_config(file) ==
    IF file.exists
      THEN {[ok |-> FALSE, val |-> ConfigDefault, file |-> file]}      \* read is Err
           \cup
           (IF file.parses
              THEN {[ok |-> TRUE, val |-> file.config, file |-> file]}
              ELSE {[ok |-> FALSE, val |-> ConfigDefault, file |-> file]})
      ELSE {[ok |-> FALSE, val |-> ConfigDefault, file |-> file],     \* write is Err
            [ok |-> TRUE, val |-> ConfigDefault, file |-> FileOf(ConfigDefault)]}

\* ------------------------------------------------- construction, new()
Init ==
    /\ config \in {[ConfigDefault EXCEPT !.target_ip = ip] : ip \in {"", "10.0.0.2"}}
    /\ config_file = FileOf(config)
    /\ temp_ip = config.target_ip
    /\ sources = <<>>
    /\ lock = 0
    /\ selected_source = 0
    /\ streaming = FALSE
    /\ ffmpeg_process = 0
    /\ status_message = IF is_ip_configured(config) THEN "Ready to stream"
                        ELSE "Please set target IP address"
    \* app.refresh_sources(): the first discovery is already in flight
    /\ tasks = [t \in Tids |-> IF t = 1 THEN [NoTask EXCEPT !.pc = "query"]
                               ELSE NoTask]
    /\ children = [p \in Pids |-> NoChild]
    /\ pc = "poll"
    /\ ret = NoCall

\* The program before main() has loaded the configuration: no application
\* object exists yet.
InitMain ==
    /\ config_file \in Files
    /\ config = ConfigDefault
    /\ temp_ip = ""
    /\ sources = <<>>
    /\ lock = 0
    /\ selected_source = 0
    /\ streaming = FALSE
    /\ ffmpeg_process = 0
    /\ status_message = ""
    /\ tasks = [t \in Tids |-> NoTask]
    /\ children = [p \in Pids |-> NoChild]
    /\ pc = "main"
    /\ ret = NoCall

\* main(): load_or_create_config(&config_path).await?, then run_native builds
\* the application with AudioStreamerApp::new(config, ...).  On Err main
\* returns it and the program ends.
Load ==
    /\ pc = "main"
    /\ \E r \in load_or_create_config(config_file) :
          /\ config_file' = r.file
          /\ ret' = [op |-> "load_or_create_config", ok |-> r.ok]
          /\ IF r.ok
               THEN /\ config' = r.val
                    /\ temp_ip' = r.val.target_ip
                    /\ status_message' = IF is_ip_configured(r.val)
                                            THEN "Ready to stream"
                                            ELSE "Please set target IP address"
                    /\ tasks' = [t \in Tids |->
                                   IF t = 1 THEN [NoTask EXCEPT !.pc = "query"]
                                   ELSE NoTask]
                    /\ pc' = "poll"
               ELSE /\ pc' = "exit"
                    /\ UNCHANGED <<config, temp_ip, status_message, tasks>>
    /\ UNCHANGED <<sources, lock, selected_source, streaming, ffmpeg_process,
                   children>>

\* ------------------------------------------- refresh_sources, the worker
FreeTids == {t \in Tids : tasks[t] = NoTask}

\* refresh_sources: runtime_handle.spawn(...) of one more task.
refresh_sources ==
    LET t == CHOOSE x \in FreeTids : \A y \in FreeTids : x <= y
    IN [tasks EXCEPT ![t] = [NoTask EXCEPT !.pc = "query"]]

\* The query made after sources_arc.lock(), the guard kept while it runs.
WorkerQueryFrom_holding_lock(t, outcomes, defaults) ==
    /\ tasks[t].pc = "query"
    /\ lock = 0
    /\ lock' = t
    /\ \E lo \in outcomes, d \in defaults :
          LET r == get_audio_sources(lo, d) IN
          tasks' = [tasks EXCEPT ![t] = [pc |-> "match", ok |-> r.ok, val |-> r.val]]
    /\ UNCHANGED <<config_file, config, temp_ip, sources, selected_source, streaming,
                   ffmpeg_process, status_message, children, pc, ret>>

\* get_audio_sources().await, run with no lock held.
WorkerQueryFrom(t, outcomes, defaults) ==
    /\ tasks[t].pc = "query"
    /\ \E lo \in outcomes, d \in defaults :
          LET r == get_audio_sources(lo, d) IN
          tasks' = [tasks EXCEPT ![t] = [pc |-> "match", ok |-> r.ok, val |-> r.val]]
    /\ UNCHANGED <<config_file, config, temp_ip, sources, lock, selected_source, streaming,
                   ffmpeg_process, status_message, children, pc, ret>>

WorkerQuery(t) == WorkerQueryFrom(t, ListOutcomes, DefaultOutcomes)
DiscoveryQuery(t) == WorkerQueryFrom(t, DiscoveryListOutcomes, DiscoveryDefaultOutcomes)

\* get_audio_sources().await on a host of SpecParse.  The task keeps, beside
\* the Result, what the call saw and computed on the way: the listing the
\* host printed, the two command outputs, parsed_sources and the Result of
\* get_default_sink_monitor_name.
ParseQuery(t) ==
    /\ tasks[t].pc = "query"
    /\ \E l \in RawListings, d \in ParseDefaultOutcomes :
          \E lo \in {Exited(TRUE, RenderListing(l)), Exited(FALSE, <<>>),
                      NotLaunched(<<>>)} :
             LET r == get_audio_sources(lo, d) IN
             tasks' = [tasks EXCEPT ![t] =
                          [pc |-> "match", ok |-> r.ok, val |-> r.val,
                           listing |-> l,
                           sources_list_output |-> lo,
                           parsed_sources |->
                               IF r.ok THEN parse_pactl_sources_output(lo.stdout)
                               ELSE <<>>,
                           default_sink_monitor |->
                               get_default_sink_monitor_name(d)]]
    /\ UNCHANGED <<config_file, config, temp_ip, sources, lock, selected_source, streaming,
                   ffmpeg_process, status_message, children, pc, ret>>

\* The Err(e) arm publishing an empty list.
WorkerFail_clears(t) ==
    /\ tasks[t].pc = "match" /\ ~tasks[t].ok
    /\ lock = 0
    /\ sources' = <<>>
    /\ tasks' = [tasks EXCEPT ![t] = NoTask]
    /\ UNCHANGED <<config_file, config, temp_ip, lock, selected_source, streaming,
                   ffmpeg_process, status_message, children, pc, ret>>

\* The Err(e) arm: eprintln, and the task ends.
WorkerFail(t) ==
    /\ tasks[t].pc = "match" /\ ~tasks[t].ok
    /\ tasks' = [tasks EXCEPT ![t] = NoTask]
    /\ UNCHANGED <<config_file, config, temp_ip, sources, lock, selected_source, streaming,
                   ffmpeg_process, status_message, children, pc, ret>>

\* The Ok(new_sources) arm: sources_arc.lock().
WorkerLock(t) ==
    /\ tasks[t].pc = "match" /\ tasks[t].ok
    /\ lock = 0
    /\ lock' = t
    /\ tasks' = [tasks EXCEPT ![t].pc = "locked"]
    /\ UNCHANGED <<config_file, config, temp_ip, sources, selected_source, streaming,
                   ffmpeg_process, status_message, children, pc, ret>>

\* sources.extend(new_sources) in place of the assignment.
WorkerPublish_extends(t) ==
    /\ tasks[t].pc = "locked" /\ lock = t
    /\ sources' = sources \o tasks[t].val
    /\ lock' = 0
    /\ tasks' = [tasks EXCEPT ![t] = NoTask]
    /\ UNCHANGED <<config_file, config, temp_ip, selected_source, streaming, ffmpeg_process,
                   status_message, children, pc, ret>>

\* *sources = new_sources; the guard drops at the end of the block.
WorkerPublish(t) ==
    /\ tasks[t].pc = "locked" /\ lock = t
    /\ sources' = tasks[t].val
    /\ lock' = 0
    /\ tasks' = [tasks EXCEPT ![t] = NoTask]
    /\ UNCHANGED <<config_file, config, temp_ip, selected_source, streaming, ffmpeg_process,
                   status_message, children, pc, ret>>

\* --------------------------------------------------- child processes, OS
\* A child ends on its own: crash, external kill, end of input.  One whose
\* handle the supervisor holds stays in the table until it is reaped; a test
\* tone is reaped by the task generate_test_tone spawned (child.wait()).
ChildExit(p) ==
    /\ children[p].state = "alive"
    /\ children' = IF children[p].stdio = "piped"
                     THEN [children EXCEPT ![p].state = "exited", ![p].fill = 0]
                     ELSE [children EXCEPT ![p] = NoChild]
    /\ UNCHANGED <<config_file, config, temp_ip, sources, lock, selected_source, streaming,
                   ffmpeg_process, status_message, tasks, pc, ret>>

\* ffmpeg -v info writes its log to stderr; a pipe nobody reads fills up.
ChildWrite(p) ==
    /\ children[p].state = "alive" /\ children[p].stdio = "piped"
    /\ children[p].fill < PipeCapacity
    /\ children' = [children EXCEPT ![p].fill = @ + 1]
    /\ UNCHANGED <<config_file, config, temp_ip, sources, lock, selected_source, streaming,
                   ffmpeg_process, status_message, tasks, pc, ret>>

\* ------------------------------------------------------- update(), a frame
\* The exit poll without `self.ffmpeg_process = None`.
Poll_keeps_handle ==
    /\ pc = "poll"
    /\ pc' = "select"
    /\ \/ /\ streaming /\ ffmpeg_process # 0
          /\ children[ffmpeg_process].state = "exited"
          /\ streaming' = FALSE
          /\ children' = [children EXCEPT ![ffmpeg_process] = NoChild]
          /\ status_message' = "Streaming stopped unexpectedly"
          /\ ret' = ExitFound
          /\ UNCHANGED ffmpeg_process
       \/ /\ ~(streaming /\ ffmpeg_process # 0
                /\ children[ffmpeg_process].state = "exited")
          /\ ret' = NoCall
          /\ UNCHANGED <<streaming, ffmpeg_process, children, status_message>>
    /\ UNCHANGED <<config_file, config, temp_ip, sources, lock, selected_source, tasks>>

\* The exit poll at the top of update().  try_wait returns Ok(Some(status))
\* for a child that has ended and reaps it, Ok(None) for one that has not,
\* or Err.
Poll ==
    /\ pc = "poll"
    /\ pc' = "select"
    /\ \/ /\ streaming /\ ffmpeg_process # 0
          /\ children[ffmpeg_process].state = "exited"
          /\ streaming' = FALSE
          /\ ffmpeg_process' = 0
          /\ children' = [children EXCEPT ![ffmpeg_process] = NoChild]
          /\ status_message' = "Streaming stopped unexpectedly"
          /\ ret' = ExitFound
       \/ /\ streaming /\ ffmpeg_process # 0
          /\ children[ffmpeg_process].state = "alive"
          /\ ret' = NoCall
          /\ UNCHANGED <<streaming, ffmpeg_process, children, status_message>>
       \/ /\ streaming /\ ffmpeg_process # 0       \* try_wait is Err
          /\ ret' = NoCall
          /\ UNCHANGED <<streaming, ffmpeg_process, children, status_message>>
       \/ /\ ~(streaming /\ ffmpeg_process # 0)
          /\ ret' = NoCall
          /\ UNCHANGED <<streaming, ffmpeg_process, children, status_message>>
    /\ UNCHANGED <<config_file, config, temp_ip, sources, lock, selected_source, tasks>>

\* self.update_selected_source(), under the list's lock.
Select ==
    /\ pc = "select"
    /\ lock = 0
    /\ pc' = "widgets"
    /\ LET r == update_selected_source(sources, config, selected_source, status_message)
       IN /\ selected_source' = r.selected_source
          /\ status_message' = r.status_message
    /\ UNCHANGED <<config_file, config, temp_ip, sources, lock, streaming, ffmpeg_process,
                   tasks, children, ret>>

\* The widgets of one frame.  At most one of them is acted on in a frame;
\* the frame takes the list's lock to draw the source list.  "Test Network
\* Connection" writes only network_test_result, which no property here
\* reads; it is left out.
Widgets == pc = "widgets" /\ lock = 0 /\ pc' = "poll"

NoInput ==
    /\ Widgets
    /\ UNCHANGED <<config_file, config, temp_ip, sources, lock, selected_source, streaming,
                   ffmpeg_process, status_message, tasks, children, ret>>

EditIp(v) ==
    /\ Widgets
    /\ temp_ip # v
    /\ temp_ip' = v
    /\ UNCHANGED <<config_file, config, sources, lock, selected_source, streaming,
                   ffmpeg_process, status_message, tasks, children, ret>>

ClickApply ==
    /\ Widgets
    /\ config' = update_config_from_temp(config, temp_ip)
    /\ status_message' = "Settings updated"
    /\ UNCHANGED <<config_file, temp_ip, sources, lock, selected_source, streaming,
                   ffmpeg_process, tasks, children, ret>>

\* "Save Config": update_config_from_temp, then save_config; fs::write
\* returns Ok or Err.
ClickSave ==
    /\ Widgets
    /\ config' = update_config_from_temp(config, temp_ip)
    /\ \/ /\ config_file' = FileOf(config')
          /\ status_message' = "Configuration saved"
       \/ /\ config_file' = config_file
          /\ status_message' = "Save failed: os error"
    /\ UNCHANGED <<temp_ip, sources, lock, selected_source, streaming,
                   ffmpeg_process, tasks, children, ret>>

\* The test-tone button with the child kept as the main process.
ClickTestTone_keeps_child ==
    /\ Widgets
    /\ \E o \in generate_test_tone(config) :
          /\ children' = o.children
          /\ status_message' = o.status_message
          /\ ret' = [op |-> "generate_test_tone", ok |-> o.ok]
          /\ ffmpeg_process' = IF o.children # children THEN LeastFree
                               ELSE ffmpeg_process
    /\ UNCHANGED <<config_file, config, temp_ip, sources, lock, selected_source,
                   streaming, tasks>>

ClickTestTone ==
    /\ Widgets
    /\ \E o \in generate_test_tone(config) :
          /\ children' = o.children
          /\ status_message' = o.status_message
          /\ ret' = [op |-> "generate_test_tone", ok |-> o.ok]
    /\ UNCHANGED <<config_file, config, temp_ip, sources, lock, selected_source, streaming,
                   ffmpeg_process, tasks>>

ClickRefresh ==
    /\ Widgets
    /\ FreeTids # {}
    /\ tasks' = refresh_sources
    /\ status_message' = "Refreshing sources..."
    /\ UNCHANGED <<config_file, config, temp_ip, sources, lock, selected_source, streaming,
                   ffmpeg_process, children, ret>>

\* A click on row i of the list drawn from the clone taken under the lock.
ClickSource(i) ==
    /\ Widgets
    /\ i < Len(sources)
    /\ selected_source' = i
    /\ config' = [config EXCEPT !.preferred_source = Some(sources[i + 1].name)]
    /\ status_message' = "Selected: " \o sources[i + 1].description
    /\ UNCHANGED <<config_file, temp_ip, sources, lock, streaming, ffmpeg_process, tasks,
                   children, ret>>

\* The stream button: enabled is read before update_config_from_temp runs.
ClickStream ==
    /\ Widgets
    /\ is_ip_configured(config)
    /\ config' = update_config_from_temp(config, temp_ip)
    /\ IF streaming
         THEN \E o \in stop_streaming :
                 /\ children' = o.children
                 /\ ffmpeg_process' = o.ffmpeg_process
                 /\ streaming' = o.streaming
                 /\ status_message' = IF o.ok THEN o.status_message
                                      ELSE "Stop failed: os error"
                 /\ ret' = [op |-> "stop_streaming", ok |-> o.ok]
         ELSE \E o \in start_streaming(config') :
                 /\ children' = o.children
                 /\ ffmpeg_process' = o.ffmpeg_process
                 /\ streaming' = o.streaming
                 /\ status_message' = IF o.ok THEN o.status_message
                                      ELSE "Start failed: os error"
                 /\ ret' = [op |-> "start_streaming", ok |-> o.ok,
                            args |-> o.args]
    /\ UNCHANGED <<config_file, temp_ip, sources, lock, selected_source, tasks>>

\* The discovery tasks and the processes run beside the foreground thread.
Worker ==
    \/ \E t \in Tids : WorkerQuery(t)
    \/ \E t \in Tids : WorkerFail(t)
    \/ \E t \in Tids : WorkerLock(t)
    \/ \E t \in Tids : WorkerPublish(t)

\* The supervisor in the GUI: the discovery started by new(), frames in which
\* the operator edits and applies the target, picks a source, sends test tones
\* and clicks the stream button, and children that write and end on their own.
Next ==
    \/ Worker
    \/ \E p \in Pids : ChildExit(p)
    \/ \E p \in Pids : ChildWrite(p)
    \/ Poll
    \/ Select
    \/ NoInput
    \/ \E v \in Ips : EditIp(v)
    \/ ClickApply
    \/ ClickTestTone
    \/ \E i \in 0..(MaxBlocks - 1) : ClickSource(i)
    \/ ClickStream

Spec == Init /\ [][Next]_vars

\* Discovery beside the GUI: overlapping refreshes, the selection step of each
\* frame and clicks on the list, with the target as configured at start.
NextRefresh ==
    \/ Worker
    \/ Poll
    \/ Select
    \/ NoInput
    \/ ClickRefresh
    \/ \E i \in 0..(MaxBlocks - 1) : ClickSource(i)

SpecRefresh == Init /\ [][NextRefresh]_vars

\* One discovery cycle, the one new() starts, on every host of Listings.
NextDiscovery ==
    \/ \E t \in Tids : DiscoveryQuery(t)
    \/ \E t \in Tids : WorkerFail(t)
    \/ \E t \in Tids : WorkerLock(t)
    \/ \E t \in Tids : WorkerPublish(t)

SpecDiscovery == Init /\ [][NextDiscovery]_vars

\* One discovery cycle on every host of RawListings.
NextParse ==
    \/ \E t \in Tids : ParseQuery(t)
    \/ \E t \in Tids : WorkerFail(t)
    \/ \E t \in Tids : WorkerLock(t)
    \/ \E t \in Tids : WorkerPublish(t)

SpecParse == Init /\ [][NextParse]_vars

\* The stream button beside discovery: the list is refreshed and rows are
\* clicked while a stream is started, ends on its own and is stopped.
NextTick ==
    \/ Worker
    \/ \E p \in Pids : ChildExit(p)
    \/ Poll
    \/ Select
    \/ NoInput
    \/ ClickRefresh
    \/ \E i \in 0..(MaxBlocks - 1) : ClickSource(i)
    \/ ClickStream

SpecTick == Init /\ [][NextTick]_vars

\* start_streaming called in the state a frame finds, whatever `streaming`
\* says, as a test of the method on its own would; the test ends there.
CallStart ==
    /\ pc = "widgets" /\ lock = 0
    /\ pc' = "returned"
    /\ \E o \in start_streaming(config) :
          /\ children' = o.children
          /\ ffmpeg_process' = o.ffmpeg_process
          /\ streaming' = o.streaming
          /\ status_message' = o.status_message
          /\ ret' = [op |-> "start_streaming", ok |-> o.ok, args |-> o.args]
    /\ UNCHANGED <<config_file, config, temp_ip, sources, lock, selected_source, tasks>>

NextCallStart == Next \/ CallStart

SpecCallStart == Init /\ [][NextCallStart]_vars

\* self.config.build_ffmpeg_command(&source.name) called for row i of the
\* list, as start_streaming calls it, with the vector it returns kept as the
\* Result of the frame; the test ends there.
CallBuild(i) ==
    /\ pc = "widgets" /\ lock = 0
    /\ i < Len(sources)
    /\ pc' = "returned"
    /\ ret' = [op |-> "build_ffmpeg_command", ok |-> TRUE,
               val |-> build_ffmpeg_command(config, sources[i + 1].name)]
    /\ UNCHANGED <<config_file, config, temp_ip, sources, lock, selected_source,
                   streaming, ffmpeg_process, status_message, tasks, children>>

\* The program from main(): the configuration is loaded from every file of
\* Files, the window runs, the operator edits and saves the target.
NextStartup ==
    \/ Load
    \/ Worker
    \/ Poll
    \/ Select
    \/ NoInput
    \/ \E v \in Ips : EditIp(v)
    \/ ClickSave
    \/ \E i \in 0..(MaxBlocks - 1) : CallBuild(i)

SpecStartup == InitMain /\ [][NextStartup]_vars

\* ================================================================ claims
Running == streaming /\ ffmpeg_process # 0
Idle == ~streaming /\ ffmpeg_process = 0
AliveStreams == {p \in Pids : children[p].kind = "main" /\ children[p].state = "alive"}
\* The step in which the frame's stream button called the named method.
Called(op) == pc = "widgets" /\ ret'.op = op

\* C1: in every reachable state at most one child launched by start_streaming
\* is alive (test tones are not counted); the handle slot is an Option and
\* holds at most one by construction.
C1_AtMostOneStream == Cardinality(AliveStreams) <= 1

\* C2: start_streaming called while Running returns an error, launches no
\* second child and leaves the handle it holds untouched.
C2_StartWhileRunningFails ==
    [][(Called("start_streaming") /\ Running)
          => (~ret'.ok /\ children' = children /\ ffmpeg_process' = ffmpeg_process)]_vars

\* C3: whenever stop_streaming has returned, with Ok or with Err, the
\* supervisor is Idle: streaming is false and no handle is held.
C3_StopLeavesIdle == ret.op = "stop_streaming" => Idle

\* C4: stop_streaming invoked when the held child has already ended on its
\* own returns Ok and leaves the supervisor Idle.
C4_StopAfterExitSucceeds ==
    [][(Called("stop_streaming") /\ ffmpeg_process # 0
           /\ children[ffmpeg_process].state = "exited")
          => (ret'.ok /\ ~streaming' /\ ffmpeg_process' = 0)]_vars

\* C5: a poll that finds the held child ended (and reaps it) leaves the
\* supervisor Idle in that same step, which is the state in which the next
\* poll does nothing and the stream button starts; a poll while Idle changes
\* no field of the application and nothing in the process table.
C5_PollStep ==
    pc = "poll" /\ pc' = "select"
      => /\ (ffmpeg_process # 0 /\ children'[ffmpeg_process] # children[ffmpeg_process])
              => ~streaming' /\ ffmpeg_process' = 0
         /\ Idle => UNCHANGED <<config, temp_ip, sources, selected_source, streaming,
                                ffmpeg_process, status_message, children>>
C5_PollExitGoesIdle == [][C5_PollStep]_vars
C5_Witness ==
    pc = "select" /\ status_message = "Streaming stopped unexpectedly" /\ Idle

\* C6: when the launch fails in start_streaming the supervisor stays Idle and
\* Err is returned and reported; when it succeeds the supervisor is Running
\* and holds exactly the child just launched.
C6_StartStep ==
    Called("start_streaming")
      => /\ ~ret'.ok => /\ ~streaming' /\ ffmpeg_process' = 0 /\ children' = children
                        /\ status_message' = "Start failed: os error"
         /\ children' # children
              => /\ ret'.ok /\ streaming' /\ ffmpeg_process' # 0
                 /\ children[ffmpeg_process'] = NoChild
                 /\ children'[ffmpeg_process'].kind = "main"
                 /\ children'[ffmpeg_process'].state = "alive"
                 /\ \A q \in Pids \ {ffmpeg_process'} : children'[q] = children[q]
C6_StartOutcome == [][C6_StartStep]_vars
C6_Witness == ret.op = "start_streaming" /\ ~ret.ok /\ Idle /\ pc = "poll"

\* C7: while the supervisor is Running, the child it holds is never stuck
\* writing to a full stdout/stderr pipe (nothing in the program reads the
\* pipes, so a full pipe stays full for as long as the handle is held).
C7_ChildNeverBlocked ==
    Running /\ children[ffmpeg_process].state = "alive"
            /\ children[ffmpeg_process].stdio = "piped"
      => children[ffmpeg_process].fill < PipeCapacity

\* C8: a discovery whose endpoint-list query failed leaves the shared list as
\* it was, in the step that returns the failure and in the step that ends the
\* task.
C8_FailStep ==
    \A t \in Tids :
        (tasks'[t] # tasks[t] /\ (tasks'[t].pc = "match" \/ tasks[t].pc = "match")
            /\ ~tasks'[t].ok /\ ~tasks[t].ok)
          => sources' = sources
C8_FailedRefreshKeepsList == [][C8_FailStep]_vars
C8_Witness ==
    sources # <<>> /\ \E t \in Tids : tasks[t].pc = "match" /\ ~tasks[t].ok

\* C9: what the foreground reads is always the empty initial list or the
\* whole result of one discovery cycle: the list changes only by a worker that
\* holds the lock installing the complete result of its finished query, and
\* the foreground reads only while no worker holds the lock.
CompleteResults ==
    {get_audio_sources(lo, d).val :
        lo \in {x \in ListOutcomes : x.launched /\ x.success}, d \in DefaultOutcomes}
C9_Step ==
    /\ sources' # sources
         => \E t \in Tids : /\ tasks[t].pc = "locked" /\ tasks[t].ok /\ lock = t
                            /\ sources' = tasks[t].val
    /\ (pc \in {"select", "widgets"} /\ pc' # pc) => lock = 0
C9_ReadsSeeWholeCycle ==
    [](sources \in CompleteResults \cup {<<>>}) /\ [][C9_Step]_vars
C9_Witness ==
    /\ pc = "widgets" /\ sources # <<>>
    /\ \E t \in Tids : tasks[t].pc = "match" /\ tasks[t].ok /\ tasks[t].val # sources

\* C10: every non-empty list get_audio_sources returns is in non-increasing
\* score order, so the element get_best_source_index names has a score no
\* other element exceeds.
ScoreSorted(l) ==
    /\ \A i \in 1..Len(l) : \A j \in i..Len(l) : score(l[i]) >= score(l[j])
    /\ l # <<>> => \A j \in 1..Len(l) : score(l[get_best_source_index(l) + 1]) >= score(l[j])
C10_BestFirst ==
    /\ \A t \in Tids : (tasks[t].pc # "none" /\ tasks[t].ok) => ScoreSorted(tasks[t].val)
    /\ ScoreSorted(sources)
C10_Witness ==
    /\ Len(sources) = 3
    /\ score(sources[1]) > score(sources[2]) /\ score(sources[2]) > score(sources[3])
    /\ StrLess(sources[3].description, sources[1].description)

\* C11: in every list get_audio_sources returns, two elements of equal score
\* stand in ascending order of description; and when the descriptions are
\* pairwise distinct the list is the same whatever order its elements were
\* listed in (sorting any reordering of it gives it back).
Reorderings(l) ==
    {[i \in 1..Len(l) |-> l[q[i]]] :
        q \in {f \in [1..Len(l) -> 1..Len(l)] :
                  \A i, j \in 1..Len(l) : i # j => f[i] # f[j]}}
DistinctDescriptions(l) ==
    \A i, j \in 1..Len(l) : i # j => l[i].description # l[j].description
TieBroken(l) ==
    /\ \A i, j \in 1..Len(l) :
          (i < j /\ score(l[i]) = score(l[j]))
            => ~StrLess(l[j].description, l[i].description)
    /\ DistinctDescriptions(l) => \A r \in Reorderings(l) : sort_by(r) = l
C11_TieBreak ==
    /\ \A t \in Tids : (tasks[t].pc # "none" /\ tasks[t].ok) => TieBroken(tasks[t].val)
    /\ TieBroken(sources)
C11_Witness ==
    /\ Len(sources) = 3
    /\ score(sources[1]) > score(sources[2]) /\ score(sources[2]) = score(sources[3])
    /\ StrLess(sources[2].description, sources[3].description)
    /\ StrLess(sources[3].description, sources[1].description)

\* The tasks of SpecParse whose get_audio_sources call has returned.
Returned == {t \in Tids : tasks[t].pc \in {"match", "locked"}}
Defaults(l) == {i \in 1..Len(l) : l[i].is_default}

\* C12: every list one discovery cycle produces, whatever the query printed,
\* has at most one element with is_default true.
C12_AtMostOneDefault ==
    /\ \A t \in Returned : tasks[t].ok => Cardinality(Defaults(tasks[t].val)) <= 1
    /\ Cardinality(Defaults(sources)) <= 1

\* C13: when the default-output-device query failed and the endpoint-list
\* query did not, get_audio_sources returns Ok and no element of the list,
\* an element with an empty identifier included, has is_default true.
C13_FailedDefaultMarksNone ==
    \A t \in Returned :
        (tasks[t].sources_list_output.launched /\ tasks[t].sources_list_output.success
            /\ ~tasks[t].default_sink_monitor.ok)
          => tasks[t].ok /\ Defaults(tasks[t].val) = {}

\* C14: the selection step of every frame, taken on a non-empty list, leaves
\* selected_source at the element that carries the remembered preferred
\* identifier when the list has one, and at 0 otherwise.
C14_SelectStep ==
    (pc = "select" /\ pc' = "widgets" /\ sources # <<>>)
      => LET preferred == config.preferred_source IN
         IF preferred.some /\ \E i \in 1..Len(sources) : sources[i].name = preferred.val
           THEN /\ selected_source' < Len(sources)
                /\ sources[selected_source' + 1].name = preferred.val
           ELSE selected_source' = 0
C14_SelectionFollowsPreferred == [][C14_SelectStep]_vars
C14_Witness ==
    /\ pc = "widgets" /\ selected_source = 1
    /\ config.preferred_source = Some("alsa_in")
    /\ status_message = "Auto-selected: Mic"

\* C15: the vector build_ffmpeg_command returns for a configuration with
\* low_latency set holds the three low-latency pairs, together and in order,
\* right after the bitrate that ends the encode stage and right before the
\* "-f mpegts" that opens the output stage; for a configuration without
\* low_latency it holds none of the three flags.
LowLatencyFlags == <<"-flags", "+low_delay", "-fflags", "+nobuffer", "-flush_packets", "1">>
FlagNames == {"-flags", "-fflags", "-flush_packets"}
FlagsIn(cmd) == {cmd[i] : i \in 1..Len(cmd)} \cap FlagNames
EncodeEnd(cmd) == 1 + CHOOSE i \in 1..Len(cmd) : cmd[i] = "-b:a"
OutputStart(cmd) == CHOOSE i \in 1..(Len(cmd) - 1) : cmd[i] = "-f" /\ cmd[i + 1] = "mpegts"
C15_LowLatencyAllOrNone ==
    ret.op = "build_ffmpeg_command"
      => /\ FlagsIn(ret.val) \in {{}, FlagNames}
         /\ IF config.low_latency
              THEN /\ SubSeq(ret.val, EncodeEnd(ret.val) + 1, EncodeEnd(ret.val) + 6)
                         = LowLatencyFlags
                   /\ OutputStart(ret.val) = EncodeEnd(ret.val) + 7
              ELSE /\ FlagsIn(ret.val) = {}
                   /\ OutputStart(ret.val) = EncodeEnd(ret.val) + 1
C15_Witness ==
    /\ ret.op = "build_ffmpeg_command" /\ ~config.low_latency
    /\ config.channels = 1 /\ Len(ret.val) = 19

\* C18: when the file at config_path is absent or does not parse, main goes
\* on to run the application with Config::default(), whose destination is
\* unset; it does not end with the error.
C18_LoadStep ==
    (pc = "main" /\ pc' # pc /\ (~config_file.exists \/ ~config_file.parses))
      => /\ pc' = "poll" /\ ret'.ok
         /\ config' = ConfigDefault /\ ~is_ip_configured(config')
C18_BadFileFallsBackToDefault == [][C18_LoadStep]_vars

\* C16: generate_test_tone leaves streaming, the handle slot and the child
\* the slot holds as they were, and launches nothing but a test tone; the
\* start, stop and exit poll of the main stream leave every test-tone
\* process as it was.
Tones(chs) == {p \in Pids : chs[p].kind = "tone"}
C16_Step ==
    /\ Called("generate_test_tone")
         => /\ streaming' = streaming /\ ffmpeg_process' = ffmpeg_process
            /\ \A p \in Pids \ Tones(children') : children'[p] = children[p]
    /\ (Called("start_streaming") \/ Called("stop_streaming")
            \/ (pc = "poll" /\ pc' = "select"))
         => \A p \in Tones(children) : children'[p] = children[p]
C16_ToneApartFromStream == [][C16_Step]_vars
\* a main stream started in a frame in which a test tone was still playing
C16_Witness ==
    /\ ret.op = "start_streaming" /\ ret.ok /\ Running
    /\ \E p \in Pids : children[p].kind = "tone" /\ children[p].state = "alive"

\* C17: in the frame whose exit poll found the child ended, the status is
\* "Streaming stopped unexpectedly" from the poll until the widgets are
\* handled, so that a frame without input shows it; a stop the operator
\* asked for shows "Streaming stopped".
C17_ExitStatusShown ==
    /\ (ret = ExitFound /\ pc \in {"select", "widgets"})
         => status_message = "Streaming stopped unexpectedly"
    /\ (ret = [op |-> "stop_streaming", ok |-> TRUE])
         => status_message = "Streaming stopped"

\* C19: a discovery task holds the list's lock only between its lock() and
\* the end of the block that replaces the list: never while its query is in
\* flight or before it has matched on the result.  So with every task stuck
\* in its query the lock is free, and the frame's reads are not blocked.
C19_NoLockDuringQuery ==
    /\ \A t \in Tids : (lock = t) <=> (tasks[t].pc = "locked")
    /\ lock \in Tids \cup {0}
    /\ (\A t \in Tids : tasks[t].pc \in {"none", "query"})
         => (lock = 0 /\ (pc = "select" => ENABLED Select))
\* the selection step has read the list while another query was in flight
C19_Witness ==
    /\ pc = "widgets" /\ status_message = "Auto-selected: Mic"
    /\ \E t \in Tids : tasks[t].pc = "query"

\* C20: what parse_pactl_sources_output returns is, in the order printed, one
\* triple for every block of the listing that has a Name, a Description and
\* a State line, holding the values of that block's own lines; blocks that
\* lack one are dropped, and a listing with such blocks does not make
\* get_audio_sources fail.
Complete(b) == b.name # <<>> /\ b.description # <<>> /\ b.state # <<>>
ExpectedTriples(l) ==
    LET kept == SelectSeq(l, Complete) IN
    [i \in 1..Len(kept) |->
        <<TrimToString(kept[i].name[1]), TrimToString(kept[i].description[1]),
          TrimToString(kept[i].state[1])>>]
C20_BlocksParsedAlone ==
    \A t \in Returned :
        (tasks[t].sources_list_output.launched /\ tasks[t].sources_list_output.success)
          => /\ tasks[t].ok
             /\ tasks[t].parsed_sources = ExpectedTriples(tasks[t].listing)

\* C21: in every reachable state a held handle means streaming is true, and
\* the stream button calls start_streaming only when no handle is held.
C21_Step == Called("start_streaming") => ffmpeg_process = 0
C21_HandleImpliesStreaming ==
    [](ffmpeg_process # 0 => streaming) /\ [][C21_Step]_vars
\* a start issued with the slot empty while a child of an earlier start,
\* whose stop failed, is still alive
C21_Witness ==
    /\ ret.op = "start_streaming" /\ ret.ok /\ Running
    /\ \E p \in AliveStreams : p # ffmpeg_process

\* C22: whenever streaming is true the stream button, which then reads
\* "Stop", is enabled: the configuration it is enabled by has a destination,
\* whatever the operator has applied while the stream ran.
StopEnabled == is_ip_configured(config)
C22_StopEnabledWhileStreaming == streaming => StopEnabled

\* C23: the source named in the arguments of every ffmpeg start_streaming
\* launches is the one the selection policy picks in the list as it is at
\* the start request: the preferred identifier when the list has it,
\* otherwise the identifier at index 0.
SourceArg(args) == args[1 + CHOOSE i \in 1..(Len(args) - 1) : args[i] = "-i"]
PolicyChoice(list, preferred) ==
    IF preferred.some /\ \E i \in 1..Len(list) : list[i].name = preferred.val
      THEN preferred.val
      ELSE list[1].name
C23_Step ==
    (Called("start_streaming") /\ ret'.args # <<>>)
      => SourceArg(ret'.args) = PolicyChoice(sources, config.preferred_source)
C23_StartUsesPolicyChoice == [][C23_Step]_vars

\* C24: a start request made while Idle with a destination configured ends
\* in Running with a child launched, or returns Err, or changes the status
\* line; it does not return Ok with nothing launched and nothing said.
C24_Step ==
    (Called("start_streaming") /\ Idle /\ is_ip_configured(config'))
      => \/ Running' /\ children' # children
         \/ ~ret'.ok
         \/ status_message' # status_message
C24_StartNeverSilent == [][C24_Step]_vars

====
